---- MODULE Spec2Model ----
(***************************************************************************)
(* The database-connection manager of mcp-server-motherduck.               *)
(*                                                                         *)
(* The repository holds two DatabaseClient classes:                        *)
(*   server.py    the start-up client: resolves one target at              *)
(*                construction and keeps either one persistent connection  *)
(*                or (read-only local target) none, opening a short-lived  *)
(*                connection per query;                                    *)
(*   database.py  the dynamic client: holds no connection; every query     *)
(*                resolves its target, opens a connection and closes it in *)
(*                a finally block.                                         *)
(* impl says which of the two the running server was built with.           *)
(*                                                                         *)
(* Strings are sequences of one-character strings.  The DuckDB engine is   *)
(* an external collaborator: connect, execute and fetch/render each either *)
(* succeed or raise, chosen nondeterministically.                          *)
(***************************************************************************)
EXTENDS Integers, Sequences, FiniteSets, TLC

(***************************************************************************)
(* Bounds                                                                  *)
(***************************************************************************)
MaxReqs == 2
\* the database files under the working directory besides those the model
\* names: at most this many
MaxOtherFiles == 24

(***************************************************************************)
(* Strings                                                                 *)
(***************************************************************************)
\* Python's None for an Optional[str]; no string equals it because every
\* element of a string is a single character
None == <<"None">>

MdPrefix == <<"m", "d", ":">>
MdNamed == <<"m", "d", ":", "x">>
Memory == <<":", "m", "e", "m", "o", "r", "y", ":">>
Star == <<"*">>
LocalDb == <<"a", ".", "d", "b">>
TokenParam ==
    <<"?", "m", "o", "t", "h", "e", "r", "d", "u", "c", "k", "_",
      "t", "o", "k", "e", "n", "=">>
SaasParam ==
    <<"&", "s", "a", "a", "s", "_", "m", "o", "d", "e", "=",
      "t", "r", "u", "e">>

\* the database identifiers a caller may name
Paths == {MdPrefix, MdNamed, Memory, LocalDb}
\* str.startswith
startswith(s, p) == Len(s) >= Len(p) /\ SubSeq(s, 1, Len(p)) = p

\* truth value of an Optional[str]: None and "" are false
Truthy(s) == s /= None /\ s /= <<>>

\* p in s, for strings
Contains(s, p) ==
    \E i \in 1..(Len(s) + 1) :
        i + Len(p) - 1 <= Len(s) /\ SubSeq(s, i, i + Len(p) - 1) = p

\* os.path.exists
exists(files, p) == p \in files

(***************************************************************************)
(* PathResolver                                                            *)
(***************************************************************************)
Resolved(path, type) == [err |-> "none", path |-> path, type |-> type]
Raised(kind) == [err |-> kind, path |-> <<>>, type |-> "none"]

\* _resolve_db_path_type taking the environment's token whenever the
\* variable is set, also when it is set to ""
server_resolve_env_set(db_path, motherduck_token, saas_mode, env_token, files) ==
    IF startswith(db_path, MdPrefix)
    THEN IF Truthy(motherduck_token)
         THEN IF saas_mode
              THEN Resolved(db_path \o TokenParam \o motherduck_token \o SaasParam,
                            "motherduck")
              ELSE Resolved(db_path \o TokenParam \o motherduck_token,
                            "motherduck")
         ELSE IF env_token /= None
              THEN Resolved(db_path \o TokenParam \o env_token, "motherduck")
              ELSE Raised("MissingToken")
    ELSE IF db_path = Memory
         THEN Resolved(db_path, "duckdb")
         ELSE IF ~exists(files, db_path)
              THEN Raised("FileNotFound")
              ELSE Resolved(db_path, "duckdb")

\* _resolve_db_path_type testing for the file before it tests for `:memory:`
server_resolve_exists_first(db_path, motherduck_token, saas_mode, env_token, files) ==
    IF startswith(db_path, MdPrefix)
    THEN IF Truthy(motherduck_token)
         THEN IF saas_mode
              THEN Resolved(db_path \o TokenParam \o motherduck_token \o SaasParam,
                            "motherduck")
              ELSE Resolved(db_path \o TokenParam \o motherduck_token,
                            "motherduck")
         ELSE IF Truthy(env_token)
              THEN Resolved(db_path \o TokenParam \o env_token, "motherduck")
              ELSE Raised("MissingToken")
    ELSE IF ~exists(files, db_path)
         THEN Raised("FileNotFound")
         ELSE Resolved(db_path, "duckdb")

\* _resolve_db_path_type returning a local path without testing that it
\* exists
server_resolve_no_exists(db_path, motherduck_token, saas_mode, env_token, files) ==
    IF startswith(db_path, MdPrefix)
    THEN IF Truthy(motherduck_token)
         THEN IF saas_mode
              THEN Resolved(db_path \o TokenParam \o motherduck_token \o SaasParam,
                            "motherduck")
              ELSE Resolved(db_path \o TokenParam \o motherduck_token,
                            "motherduck")
         ELSE IF Truthy(env_token)
              THEN Resolved(db_path \o TokenParam \o env_token, "motherduck")
              ELSE Raised("MissingToken")
    ELSE Resolved(db_path, "duckdb")

\* server.py DatabaseClient._resolve_db_path_type
server_resolve_db_path_type(db_path, motherduck_token, saas_mode, env_token, files) ==
    IF startswith(db_path, MdPrefix)
    THEN IF Truthy(motherduck_token)
         THEN IF saas_mode
              THEN Resolved(db_path \o TokenParam \o motherduck_token \o SaasParam,
                            "motherduck")
              ELSE Resolved(db_path \o TokenParam \o motherduck_token,
                            "motherduck")
         ELSE IF Truthy(env_token)
              THEN Resolved(db_path \o TokenParam \o env_token, "motherduck")
              ELSE Raised("MissingToken")
    ELSE IF db_path = Memory
         THEN Resolved(db_path, "duckdb")
         ELSE IF ~exists(files, db_path)
              THEN Raised("FileNotFound")
              ELSE Resolved(db_path, "duckdb")

\* _resolve_db_path_type looking at the environment before the argument
database_resolve_env_first(db_path, motherduck_token, saas_mode, env_token) ==
    IF startswith(db_path, MdPrefix)
    THEN IF Truthy(env_token)
         THEN Resolved(db_path \o TokenParam \o env_token, "motherduck")
         ELSE IF Truthy(motherduck_token)
              THEN IF saas_mode
                   THEN Resolved(db_path \o TokenParam \o motherduck_token
                                    \o SaasParam,
                                 "motherduck")
                   ELSE Resolved(db_path \o TokenParam \o motherduck_token,
                                 "motherduck")
              ELSE Raised("MissingToken")
    ELSE Resolved(db_path, "duckdb")

\* database.py DatabaseClient._resolve_db_path_type
database_resolve_db_path_type(db_path, motherduck_token, saas_mode, env_token) ==
    IF startswith(db_path, MdPrefix)
    THEN IF Truthy(motherduck_token)
         THEN IF saas_mode
              THEN Resolved(db_path \o TokenParam \o motherduck_token \o SaasParam,
                            "motherduck")
              ELSE Resolved(db_path \o TokenParam \o motherduck_token,
                            "motherduck")
         ELSE IF Truthy(env_token)
              THEN Resolved(db_path \o TokenParam \o env_token, "motherduck")
              ELSE Raised("MissingToken")
    ELSE IF db_path = Memory
         THEN Resolved(db_path, "duckdb")
         ELSE Resolved(db_path, "duckdb")

(***************************************************************************)
(* State                                                                   *)
(***************************************************************************)
VARIABLES
    impl,              \* "server" or "database": the DatabaseClient in use
    args,              \* the configuration passed to the constructor
    env,               \* os.environ["motherduck_token"], None when unset
    fs,                \* the paths that exist on the filesystem
    phase,             \* "start", "serving", "failed", "terminated"
    startErr,          \* the error the constructor raised, "none" otherwise
    self,              \* the fields of the DatabaseClient
    current_database,  \* the target queries run against (dynamic client)
    nOpened,           \* how many engine handles duckdb.connect has
                       \* returned; a handle is its number in that order
    conns,             \* the open handles and what each is connected to
    task,              \* the tool-call handlers, one per request
    last,              \* what the handler that finished last answered
    running            \* the handler that holds the event loop, 0 if none

vars ==
    <<impl, args, env, fs, phase, startErr, self, current_database,
      nOpened, conns, task, last, running>>

Impls == {"server", "database"}
ArgTokens == {None, <<>>, <<"A">>}
EnvTokens == {None, <<>>, <<"B">>}
Tasks == 1..MaxReqs
ToolNames == {"query", "list_databases", "set_database", "get_database"}
\* server.py knows the tool query only; list_databases stands for every
\* other name
ServerToolNames == {"query", "list_databases"}

NoClient ==
    [db_path |-> <<>>, db_type |-> "none", conn |-> 0, read_only |-> FALSE,
     motherduck_token |-> None, saas_mode |-> FALSE]

\* pc: the position of the handler; db_path, conn, q: the locals of
\* _execute (0 is None); during: the request arrived while a query was
\* executing; name, arguments: the parameters of the handler while it calls
\* db_client.query (arguments FALSE: None)
IdleTask ==
    [pc |-> "idle", db_path |-> None, conn |-> 0, q |-> 0, during |-> FALSE,
     name |-> "none", arguments |-> FALSE]

\* an exception: its class and its message, a sequence of pieces of text
Exc(class, msg) == [class |-> class, msg |-> msg]
NoError == Exc("none", <<>>)

\* error: the exception query() raised, NoError if it returned; value: the
\* target named in the answer of set_database and get_database; found and
\* listing: the number of database files list_databases found and the
\* lines it answered
NoAnswer ==
    [name |-> "none", outcome |-> "none", text |-> "none", during |-> FALSE,
     error |-> NoError, value |-> None, found |-> 0, listing |-> <<>>]

Init ==
    /\ impl \in Impls
    /\ args \in [db_path : Paths, motherduck_token : ArgTokens,
                 saas_mode : BOOLEAN, read_only : BOOLEAN]
    /\ env \in EnvTokens
    /\ fs \in SUBSET {LocalDb}
    /\ phase = "start"
    /\ startErr = "none"
    /\ self = NoClient
    /\ current_database = None
    /\ nOpened = 0
    /\ conns = <<>>
    /\ task = [t \in Tasks |-> IdleTask]
    /\ last = NoAnswer
    /\ running = 0

\* the handle the next duckdb.connect returns
NewHandle == nOpened + 1

\* the handles that are open
openConns == DOMAIN conns

\* conns after duckdb.connect returned handle h
Open(h, info) == [k \in openConns \cup {h} |-> IF k = h THEN info ELSE conns[k]]

\* conns after close() on each handle of hs
Close(hs) == [k \in openConns \ hs |-> conns[k]]

\* what duckdb.connect records about the handle it returns; by is the call
\* that opened it: "probe" for server.py lines 51-57, where SELECT 1 is
\* executed on the handle next (line 58), "init" for lines 69-72, after
\* which no statement is executed, "query" for _execute
Handle(path, read_only, by) == [path |-> path, read_only |-> read_only, by |-> by]

(***************************************************************************)
(* Construction                                                            *)
(***************************************************************************)
\* _initialize_connection probing whenever the client is read-only,
\* whatever the type of the target
server_initialize_connection_any_type(db_path, db_type, read_only, h, connectOk, probeOk) ==
    IF read_only
    THEN IF ~connectOk
         THEN [err |-> "EngineError", conn |-> 0, opens |-> 0, left |-> 0,
               info |-> Handle(db_path, read_only, "probe")]
         ELSE IF ~probeOk
              THEN [err |-> "EngineError", conn |-> 0, opens |-> 1,
                    left |-> h,
                    info |-> Handle(db_path, read_only, "probe")]
              ELSE [err |-> "none", conn |-> 0, opens |-> 1, left |-> 0,
                    info |-> Handle(db_path, read_only, "probe")]
    ELSE IF ~connectOk
         THEN [err |-> "EngineError", conn |-> 0, opens |-> 0,
               left |-> 0, info |-> Handle(db_path, FALSE, "init")]
         ELSE [err |-> "none", conn |-> h, opens |-> 1, left |-> h,
               info |-> Handle(db_path, FALSE, "init")]

\* _initialize_connection executing the validation statement on the
\* connection it keeps as well
server_initialize_connection_validated(db_path, db_type, read_only, h, connectOk, probeOk) ==
    IF db_type = "duckdb" /\ read_only
    THEN IF ~connectOk
         THEN [err |-> "EngineError", conn |-> 0, opens |-> 0, left |-> 0,
               info |-> Handle(db_path, read_only, "probe")]
         ELSE IF ~probeOk
              THEN [err |-> "EngineError", conn |-> 0, opens |-> 1,
                    left |-> h,
                    info |-> Handle(db_path, read_only, "probe")]
              ELSE [err |-> "none", conn |-> 0, opens |-> 1, left |-> 0,
                    info |-> Handle(db_path, read_only, "probe")]
    ELSE IF read_only
         THEN [err |-> "UnsupportedReadOnly", conn |-> 0, opens |-> 0,
               left |-> 0, info |-> Handle(db_path, FALSE, "init")]
         ELSE IF ~connectOk
              THEN [err |-> "EngineError", conn |-> 0, opens |-> 0,
                    left |-> 0, info |-> Handle(db_path, FALSE, "init")]
              ELSE IF ~probeOk
                   THEN [err |-> "EngineError", conn |-> 0, opens |-> 1,
                         left |-> h, info |-> Handle(db_path, FALSE, "probe")]
                   ELSE [err |-> "none", conn |-> h, opens |-> 1, left |-> h,
                         info |-> Handle(db_path, FALSE, "probe")]

\* server.py DatabaseClient._initialize_connection; h is the handle
\* duckdb.connect returns, connectOk and probeOk are the engine's outcomes.
\* conn is the value returned (0 is None), opens the number of handles
\* opened, left the handle still open when the method returns or raises
\* (0 if none) and info what that handle is connected to
server_initialize_connection(db_path, db_type, read_only, h, connectOk, probeOk) ==
    IF db_type = "duckdb" /\ read_only
    THEN IF ~connectOk
         THEN [err |-> "EngineError", conn |-> 0, opens |-> 0, left |-> 0,
               info |-> Handle(db_path, read_only, "probe")]
         ELSE IF ~probeOk
              THEN [err |-> "EngineError", conn |-> 0, opens |-> 1,
                    left |-> h,
                    info |-> Handle(db_path, read_only, "probe")]
              ELSE [err |-> "none", conn |-> 0, opens |-> 1, left |-> 0,
                    info |-> Handle(db_path, read_only, "probe")]
    ELSE IF read_only
         THEN [err |-> "UnsupportedReadOnly", conn |-> 0, opens |-> 0,
               left |-> 0, info |-> Handle(db_path, FALSE, "init")]
         ELSE IF ~connectOk
              THEN [err |-> "EngineError", conn |-> 0, opens |-> 0,
                    left |-> 0, info |-> Handle(db_path, FALSE, "init")]
              ELSE [err |-> "none", conn |-> h, opens |-> 1, left |-> h,
                    info |-> Handle(db_path, FALSE, "init")]

\* server.py DatabaseClient.__init__, called by main; lines 30-33 set
\* _read_only, db_path and db_type before _initialize_connection can raise
server_init ==
    /\ impl = "server"
    /\ phase = "start"
    /\ LET r == server_resolve_db_path_type(args.db_path, args.motherduck_token,
                                            args.saas_mode, env, fs)
       IN  IF r.err /= "none"
           THEN /\ phase' = "failed"
                /\ startErr' = r.err
                /\ UNCHANGED <<self, nOpened, conns>>
           ELSE \E connectOk \in BOOLEAN, probeOk \in BOOLEAN :
                  LET i == server_initialize_connection(
                               r.path, r.type, args.read_only, NewHandle,
                               connectOk, probeOk)
                  IN  /\ nOpened' = nOpened + i.opens
                      /\ conns' = IF i.left = 0 THEN conns
                                  ELSE Open(i.left, i.info)
                      /\ startErr' = i.err
                      /\ phase' = IF i.err /= "none" THEN "failed"
                                   ELSE "serving"
                      /\ self' = [NoClient EXCEPT
                                    !.db_path = r.path,
                                    !.db_type = r.type,
                                    !.conn = i.conn,
                                    !.read_only = args.read_only]
    /\ UNCHANGED <<impl, args, env, fs, current_database, task, last,
                   running>>

\* database.py DatabaseClient.__init__; the application starts with the
\* configured identifier as its current target
database_init ==
    /\ impl = "database"
    /\ phase = "start"
    /\ phase' = "serving"
    /\ self' = [NoClient EXCEPT
                  !.read_only = args.read_only,
                  !.motherduck_token = args.motherduck_token,
                  !.saas_mode = args.saas_mode]
    /\ current_database' = args.db_path
    /\ UNCHANGED <<impl, args, env, fs, startErr, nOpened, conns, task,
                   last, running>>

(***************************************************************************)
(* Scheduling of the tool-call handlers                                    *)
(***************************************************************************)
\* The handlers are coroutines of one event loop: a handler that has
\* started keeps the loop until it finishes or reaches an await.
\* handle_tool_call calls db_client.query synchronously: no position of it
\* is an await.
\* (a handler that awaited the fetch of its result instead)
AwaitPoint_render(p) == p = "render"

AwaitPoint(p) == FALSE

\* handler t may take its next step
CanRun(t) == phase = "serving" /\ running \in {0, t}

\* who holds the event loop after a handler moved to position p
Holder(t, p) == IF p = "done" \/ AwaitPoint(p) THEN 0 ELSE t

\* the query of handler t is executing: it holds a handle and has not
\* finished with it
InFlight(t) == task[t].pc \in {"execute", "render", "close"}

\* a handler that ends leaves its frame; its answer is a returned text, a
\* raised error or (dynamic client) a failed result
Done(t) == [IdleTask EXCEPT !.pc = "done"]
Return(t, name, text) ==
    [name |-> name, outcome |-> "returned", text |-> text,
     during |-> task[t].during, error |-> NoError, value |-> None,
     found |-> 0, listing |-> <<>>]

\* the exception a failure of kind is where it is raised: the resolver and
\* the constructor raise ValueError and FileNotFoundError, every other
\* failure comes from the engine; its message is the kind
Failure(kind) ==
    Exc(IF kind \in {"MissingToken", "UnsupportedReadOnly", "ValueError"}
        THEN "ValueError"
        ELSE IF kind = "FileNotFound" THEN "FileNotFoundError"
        ELSE "duckdb.Error",
        <<kind>>)

\* query() letting the exception of _execute through
server_query_passthrough(e) == e

\* server.py DatabaseClient.query, lines 151-153: the except clause, e is
\* the exception _execute raised
server_query(e) == Exc("ValueError", <<"Error executing query: ">> \o e.msg)

\* server.py handle_tool_call, lines 279-281: the handler raises; error is
\* what db_client.query raised
Raise(t, name, kind) ==
    [name |-> name, outcome |-> "raised", text |-> kind,
     during |-> task[t].during, error |-> server_query(Failure(kind)),
     value |-> None, found |-> 0, listing |-> <<>>]

\* a tools/call message arrives from the transport; the server spawns a
\* handler for it, which starts when the event loop is free
Arrive(t) ==
    /\ phase = "serving"
    /\ task[t].pc = "idle"
    /\ \A u \in Tasks : u < t => task[u].pc /= "idle"
    /\ task' = [task EXCEPT ![t] =
                  [IdleTask EXCEPT !.pc = "pending",
                                   !.during = \E u \in Tasks : InFlight(u)]]
    /\ UNCHANGED <<impl, args, env, fs, phase, startErr, self,
                   current_database, nOpened, conns, last, running>>

(***************************************************************************)
(* server.py: handle_tool_call and DatabaseClient.query                    *)
(***************************************************************************)
\* _execute opening a connection for every query
server_short_lived_always(client) == TRUE

\* server.py DatabaseClient._execute, line 121 and 143: the query runs on a
\* short-lived connection of its own
server_short_lived(client) == client.conn = 0

\* query() giving up the connection it holds when a query failed
server_query_failed_reset(client) == [client EXCEPT !.conn = 0]

\* server.py DatabaseClient.query, lines 151-153, and _execute, lines
\* 120-146: the fields of the client after a query that raised; neither
\* method assigns to a field
server_query_failed(client) == client

\* handle_tool_call calling db_client.query without the test for None
server_calls_query_unchecked(name, arguments) == name = "query"

\* server.py handle_tool_call, lines 261-266: the handler goes on to call
\* db_client.query
server_calls_query(name, arguments) == name = "query" /\ arguments

\* server.py handle_tool_call, up to the call of db_client.query; name and
\* arguments are those of the request (arguments FALSE: None)
server_handle_tool_call(t) ==
    /\ impl = "server"
    /\ CanRun(t)
    /\ task[t].pc = "pending"
    /\ \E name \in ServerToolNames, arguments \in BOOLEAN :
          IF server_calls_query(name, arguments)
          THEN /\ task' = [task EXCEPT ![t].pc = "connect",
                                       ![t].name = name,
                                       ![t].arguments = arguments]
               /\ running' = Holder(t, "connect")
               /\ UNCHANGED last
          ELSE /\ task' = [task EXCEPT ![t] = Done(t)]
               /\ running' = 0
               /\ last' = IF name = "query"
                          THEN Return(t, name, "Error: No query provided")
                          ELSE Return(t, name, "Unsupported tool")
    /\ UNCHANGED <<impl, args, env, fs, phase, startErr, self,
                   current_database, nOpened, conns>>

\* server.py DatabaseClient._execute, lines 121-127: duckdb.connect when the
\* client holds no connection
server_execute_connect(t) ==
    /\ impl = "server"
    /\ CanRun(t)
    /\ task[t].pc = "connect"
    /\ IF server_short_lived(self)
       THEN \E connectOk \in BOOLEAN :
              IF connectOk
              THEN /\ nOpened' = nOpened + 1
                   /\ conns' = Open(NewHandle,
                                     Handle(self.db_path, self.read_only,
                                            "query"))
                   /\ task' = [task EXCEPT ![t].pc = "execute",
                                           ![t].conn = NewHandle]
                   /\ running' = Holder(t, "execute")
                   /\ UNCHANGED <<last, self>>
              ELSE /\ task' = [task EXCEPT ![t] = Done(t)]
                   /\ last' = Raise(t, "query", "EngineError")
                   /\ self' = server_query_failed(self)
                   /\ running' = 0
                   /\ UNCHANGED <<nOpened, conns>>
       ELSE /\ task' = [task EXCEPT ![t].pc = "execute"]
            /\ running' = Holder(t, "execute")
            /\ UNCHANGED <<nOpened, conns, last, self>>
    /\ UNCHANGED <<impl, args, env, fs, phase, startErr,
                   current_database>>

\* server.py DatabaseClient._execute, lines 128-130: conn.execute(query) on
\* the short-lived or on the persistent connection
server_execute_run(t) ==
    /\ impl = "server"
    /\ CanRun(t)
    /\ task[t].pc = "execute"
    /\ \E executeOk \in BOOLEAN :
          IF executeOk
          THEN /\ task' = [task EXCEPT
                             ![t].pc = "render",
                             ![t].q = IF server_short_lived(self)
                                      THEN task[t].conn ELSE self.conn]
               /\ running' = Holder(t, "render")
               /\ UNCHANGED <<last, self>>
          ELSE /\ task' = [task EXCEPT ![t] = Done(t)]
               /\ last' = Raise(t, "query", "EngineError")
               /\ self' = server_query_failed(self)
               /\ running' = 0
    /\ UNCHANGED <<impl, args, env, fs, phase, startErr,
                   current_database, nOpened, conns>>

\* server.py DatabaseClient._execute, lines 132-141: fetch and render
server_execute_render(t) ==
    /\ impl = "server"
    /\ CanRun(t)
    /\ task[t].pc = "render"
    /\ \E renderOk \in BOOLEAN :
          IF renderOk
          THEN /\ task' = [task EXCEPT ![t].pc = "close"]
               /\ running' = Holder(t, "close")
               /\ UNCHANGED <<last, self>>
          ELSE /\ task' = [task EXCEPT ![t] = Done(t)]
               /\ last' = Raise(t, "query", "EngineError")
               /\ self' = server_query_failed(self)
               /\ running' = 0
    /\ UNCHANGED <<impl, args, env, fs, phase, startErr,
                   current_database, nOpened, conns>>

\* server.py DatabaseClient._execute, lines 143-146, and the return of
\* handle_tool_call
server_execute_close(t) ==
    /\ impl = "server"
    /\ CanRun(t)
    /\ task[t].pc = "close"
    /\ conns' = IF server_short_lived(self)
                THEN Close({task[t].conn})
                ELSE conns
    /\ task' = [task EXCEPT ![t] = Done(t)]
    /\ last' = Return(t, "query", "result")
    /\ running' = 0
    /\ UNCHANGED <<impl, args, env, fs, phase, startErr, self,
                   current_database, nOpened>>

(***************************************************************************)
(* database.py: the dynamic client and its tools                           *)
(***************************************************************************)
\* database.py DatabaseClient.query, lines 108-110: the except clause, e is
\* the exception _execute raised
database_query(e) == Exc("ValueError", <<"Error executing query: ">> \o e.msg)

\* the dispatch layer of the dynamic client reports an error of a tool as a
\* failed result
Fail(t, name, kind) ==
    [name |-> name, outcome |-> "failed", text |-> kind,
     during |-> task[t].during,
     error |-> IF name = "query" THEN database_query(Failure(kind))
               ELSE Failure(kind),
     value |-> None, found |-> 0, listing |-> <<>>]

\* validate_database_path returning without closing its test connection
database_validate_probe_kept(db_path, client, env_token, files, connectOk) ==
    IF db_path \in {Memory, Star}
    THEN [result |-> "True", probe |-> FALSE, closed |-> FALSE]
    ELSE IF startswith(db_path, MdPrefix)
         THEN IF ~(Truthy(client.motherduck_token) \/ Truthy(env_token))
              THEN [result |-> "raised", probe |-> FALSE, closed |-> FALSE]
              ELSE [result |-> "True", probe |-> FALSE, closed |-> FALSE]
         ELSE IF exists(files, db_path)
              THEN [result |-> "True", probe |-> FALSE, closed |-> FALSE]
              ELSE IF connectOk
                   THEN [result |-> "True", probe |-> TRUE, closed |-> FALSE]
                   ELSE [result |-> "raised", probe |-> FALSE,
                         closed |-> FALSE]

\* database.py DatabaseClient.validate_database_path; connectOk is the
\* outcome of the test connection's duckdb.connect.  result: "True" or
\* "raised"; probe: a test connection was opened; closed: it was closed
\* before the method returned
database_validate_database_path(db_path, client, env_token, files, connectOk) ==
    IF db_path \in {Memory, Star}
    THEN [result |-> "True", probe |-> FALSE, closed |-> FALSE]
    ELSE IF startswith(db_path, MdPrefix)
         THEN IF ~(Truthy(client.motherduck_token) \/ Truthy(env_token))
              THEN [result |-> "raised", probe |-> FALSE, closed |-> FALSE]
              ELSE [result |-> "True", probe |-> FALSE, closed |-> FALSE]
         ELSE IF exists(files, db_path)
              THEN [result |-> "True", probe |-> FALSE, closed |-> FALSE]
              ELSE IF connectOk
                   THEN [result |-> "True", probe |-> TRUE, closed |-> TRUE]
                   ELSE [result |-> "raised", probe |-> FALSE,
                         closed |-> FALSE]

\* the targets a tool call may name; None: the query names no target and
\* runs against the current one
Targets(name) ==
    IF name = "query" THEN Paths \cup {None}
    ELSE IF name = "set_database" THEN Paths \cup {Star}
    ELSE {None}

\* a line of the listing: kind "option" for the lines of database.py 118
\* and 121, "header" for 135, "entry" for 138 (arg: the rank of the file)
\* and "more" for 141 (arg: the number of files left out)
Line(kind, arg) == [kind |-> kind, arg |-> arg]

\* database.py list_available_databases, lines 136 and 140: the number of
\* files listed at most
ListLimit == 20

Min(a, b) == IF a <= b THEN a ELSE b

\* the files glob finds, in the order of the sort on line 134: n files,
\* each named by its rank
Sorted(n) == [i \in 1..n |-> i]

\* list_available_databases adding the summary line from ListLimit files on
list_available_databases_from(client, env_token, found_dbs) ==
    LET cloud == IF Truthy(client.motherduck_token) \/ Truthy(env_token)
                 THEN <<Line("option", 0)>> ELSE <<>>
        shown == SubSeq(found_dbs, 1, Min(ListLimit, Len(found_dbs)))
        files == IF found_dbs = <<>> THEN <<>>
                 ELSE <<Line("header", 0)>>
                      \o [i \in 1..Len(shown) |-> Line("entry", shown[i])]
                      \o (IF Len(found_dbs) >= ListLimit
                          THEN <<Line("more", Len(found_dbs) - ListLimit)>>
                          ELSE <<>>)
    IN  cloud \o <<Line("option", 0)>> \o files

\* database.py DatabaseClient.list_available_databases; found_dbs is the
\* sorted result of the glob, the value the lines that "\n".join joins
list_available_databases(client, env_token, found_dbs) ==
    LET cloud == IF Truthy(client.motherduck_token) \/ Truthy(env_token)
                 THEN <<Line("option", 0)>> ELSE <<>>
        shown == SubSeq(found_dbs, 1, Min(ListLimit, Len(found_dbs)))
        files == IF found_dbs = <<>> THEN <<>>
                 ELSE <<Line("header", 0)>>
                      \o [i \in 1..Len(shown) |-> Line("entry", shown[i])]
                      \o (IF Len(found_dbs) > ListLimit
                          THEN <<Line("more", Len(found_dbs) - ListLimit)>>
                          ELSE <<>>)
    IN  cloud \o <<Line("option", 0)>> \o files

\* how many database files the working directory holds besides those the
\* model names: none, one less than the limit, the limit, and more
OtherFiles == {0, ListLimit - 1, ListLimit, MaxOtherFiles}

\* set_database keeping the resolved URI of the target
set_database_target_resolved(db_path, client, env_token) ==
    database_resolve_db_path_type(db_path, client.motherduck_token,
                                  client.saas_mode, env_token).path

\* set_database: the current target after a switch to db_path is the
\* identifier as the caller gave it
set_database_target(db_path, client, env_token) == db_path

\* the tool-call handler of the dynamic client, up to the call of
\* db_client.query: list_databases, get_database and set_database complete
\* here
database_handle_tool_call(t) ==
    /\ impl = "database"
    /\ CanRun(t)
    /\ task[t].pc = "pending"
    /\ \E name \in ToolNames :
       \E db_path \in Targets(name), connectOk \in BOOLEAN :
         LET v == database_validate_database_path(db_path, self, env, fs,
                                                  connectOk)
         IN  IF name = "query"
             THEN /\ task' = [task EXCEPT
                                ![t].pc = "connect",
                                ![t].name = name,
                                ![t].arguments = TRUE,
                                ![t].db_path = IF db_path = None
                                               THEN current_database
                                               ELSE db_path]
                  /\ running' = Holder(t, "connect")
                  /\ UNCHANGED <<last, current_database, nOpened, conns>>
             ELSE /\ task' = [task EXCEPT ![t] = Done(t)]
                  /\ running' = 0
                  /\ IF name = "set_database"
                     THEN /\ last' = IF v.result = "True"
                                     THEN [Return(t, name, "switched")
                                             EXCEPT !.value = db_path]
                                     ELSE Fail(t, name, "ValueError")
                          /\ current_database' =
                                 IF v.result = "True"
                                 THEN set_database_target(db_path, self, env)
                                 ELSE current_database
                          /\ nOpened' = IF v.probe THEN nOpened + 1
                                        ELSE nOpened
                          /\ conns' =
                                 IF v.probe /\ ~v.closed
                                 THEN Open(NewHandle,
                                           Handle(db_path, self.read_only,
                                                  "validate"))
                                 ELSE conns
                     ELSE /\ IF name = "get_database"
                             THEN last' = [Return(t, name, "current_database")
                                             EXCEPT !.value = current_database]
                             ELSE \E others \in OtherFiles :
                                    LET n == Cardinality(fs) + others
                                    IN  last' =
                                          [Return(t, name, "databases") EXCEPT
                                             !.found = n,
                                             !.listing =
                                                list_available_databases(
                                                    self, env, Sorted(n))]
                          /\ UNCHANGED <<current_database, nOpened, conns>>
    /\ UNCHANGED <<impl, args, env, fs, phase, startErr, self>>

\* database.py DatabaseClient._execute, line 89, with
\* _connect_to_database: resolve the target, then duckdb.connect
database_execute_connect(t) ==
    /\ impl = "database"
    /\ CanRun(t)
    /\ task[t].pc = "connect"
    /\ LET r == database_resolve_db_path_type(task[t].db_path,
                                              self.motherduck_token,
                                              self.saas_mode, env)
       IN  IF r.err /= "none"
           THEN /\ task' = [task EXCEPT ![t] = Done(t)]
                /\ last' = Fail(t, "query", r.err)
                /\ running' = 0
                /\ UNCHANGED <<nOpened, conns>>
           ELSE \E connectOk \in BOOLEAN :
                  IF connectOk
                  THEN /\ nOpened' = nOpened + 1
                       /\ conns' = Open(NewHandle,
                                         Handle(r.path, self.read_only,
                                                "query"))
                       /\ task' = [task EXCEPT ![t].pc = "execute",
                                               ![t].conn = NewHandle]
                       /\ running' = Holder(t, "execute")
                       /\ UNCHANGED last
                  ELSE /\ task' = [task EXCEPT ![t] = Done(t)]
                       /\ last' = Fail(t, "query", "EngineError")
                       /\ running' = 0
                       /\ UNCHANGED <<nOpened, conns>>
    /\ UNCHANGED <<impl, args, env, fs, phase, startErr, self,
                   current_database>>

\* database.py DatabaseClient._execute, line 102: the connection the
\* finally block closes
database_finally_close(t) == {task[t].conn}

\* _execute closing the connection right after conn.execute(query)
database_finally_always(executeOk) == TRUE

\* database.py DatabaseClient._execute, lines 90 and 100: the finally block
\* runs after conn.execute(query) only when that call raised
database_finally_after_execute(executeOk) == ~executeOk

\* database.py DatabaseClient._execute, line 90: conn.execute(query)
database_execute_run(t) ==
    /\ impl = "database"
    /\ CanRun(t)
    /\ task[t].pc = "execute"
    /\ \E executeOk \in BOOLEAN :
          /\ IF executeOk
             THEN /\ task' = [task EXCEPT ![t].pc = "render",
                                          ![t].q = task[t].conn]
                  /\ running' = Holder(t, "render")
                  /\ UNCHANGED last
             ELSE /\ task' = [task EXCEPT ![t] = Done(t)]
                  /\ last' = Fail(t, "query", "EngineError")
                  /\ running' = 0
          /\ conns' = IF database_finally_after_execute(executeOk)
                      THEN Close(database_finally_close(t))
                      ELSE conns
    /\ UNCHANGED <<impl, args, env, fs, phase, startErr, self,
                   current_database, nOpened>>

\* database.py DatabaseClient._execute, lines 92-103: fetch and render,
\* then the finally block closes the connection
database_execute_render(t) ==
    /\ impl = "database"
    /\ CanRun(t)
    /\ task[t].pc = "render"
    /\ \E renderOk \in BOOLEAN :
          last' = IF renderOk
                  THEN Return(t, "query", "result")
                  ELSE Fail(t, "query", "EngineError")
    /\ task' = [task EXCEPT ![t] = Done(t)]
    /\ running' = 0
    /\ conns' = Close(database_finally_close(t))
    /\ UNCHANGED <<impl, args, env, fs, phase, startErr, self,
                   current_database, nOpened>>

(***************************************************************************)
(* Shutdown                                                                *)
(***************************************************************************)
\* server.py main, lines 283-299, and __init__.py main, lines 172-186: the
\* transport's run loop ends and the server logs that it shuts down
shutdown ==
    /\ phase = "serving"
    /\ running = 0
    /\ phase' = "terminated"
    /\ UNCHANGED <<impl, args, env, fs, startErr, self, current_database,
                   nOpened, conns, task, last, running>>

Next ==
    \/ server_init
    \/ database_init
    \/ \E t \in Tasks : Arrive(t)
    \/ \E t \in Tasks : server_handle_tool_call(t)
    \/ \E t \in Tasks : server_execute_connect(t)
    \/ \E t \in Tasks : server_execute_run(t)
    \/ \E t \in Tasks : server_execute_render(t)
    \/ \E t \in Tasks : server_execute_close(t)
    \/ \E t \in Tasks : database_handle_tool_call(t)
    \/ \E t \in Tasks : database_execute_connect(t)
    \/ \E t \in Tasks : database_execute_run(t)
    \/ \E t \in Tasks : database_execute_render(t)
    \/ shutdown

Spec == Init /\ [][Next]_vars

(***************************************************************************)
(* Properties                                                              *)
(***************************************************************************)
\* the first position of p in s, 0 if p does not occur in s
IndexOf(s, p) ==
    IF Contains(s, p)
    THEN CHOOSE i \in 1..(Len(s) + 1) :
            /\ i + Len(p) - 1 <= Len(s)
            /\ SubSeq(s, i, i + Len(p) - 1) = p
            /\ \A j \in 1..(i - 1) : SubSeq(s, j, j + Len(p) - 1) /= p
    ELSE 0

\* the value of the motherduck_token parameter of a resolved URI: what
\* follows the parameter's name, up to the next "&"; "" if there is none
TokenOf(uri) ==
    LET i == IndexOf(uri, TokenParam)
        rest == SubSeq(uri, i + Len(TokenParam), Len(uri))
        j == IndexOf(rest, <<"&">>)
    IN  IF i = 0 THEN <<>>
        ELSE IF j = 0 THEN rest ELSE SubSeq(rest, 1, j - 1)

\* the engine mode of a target
EngineMode(path) ==
    IF startswith(path, MdPrefix) THEN "CLOUD"
    ELSE IF path = Memory THEN "IN_MEMORY"
    ELSE "LOCAL_FILE"

\* the start-up client holds a persistent connection
Persistent == impl = "server" /\ self.conn /= 0

\* C1: every connection a query call opened is closed when the call has
\* returned or raised: an open connection that a query opened belongs to a
\* query that is still executing
C1_QueryConnectionsClosed ==
    \A h \in openConns :
        conns[h].by = "query" =>
            \E t \in Tasks : InFlight(t) /\ task[t].conn = h

\* C2: read_only on a target that is not a local file fails at construction
\* with the unsupported-read-only error, and no query connection is ever
\* opened read-only on such a target
C2_ReadOnlyOnlyForLocalFiles ==
    /\ (/\ phase /= "start"
        /\ args.read_only
        /\ EngineMode(args.db_path) /= "LOCAL_FILE"
        /\ startErr /= "MissingToken")
       => (phase = "failed" /\ startErr = "UnsupportedReadOnly")
    /\ \A h \in openConns :
          (conns[h].by = "query" /\ conns[h].read_only)
             => EngineMode(conns[h].path) = "LOCAL_FILE"

\* C3: once the run loop has ended, the persistent connection is closed
C3_PersistentClosedAtExit ==
    phase = "terminated" => (self.conn = 0 \/ self.conn \notin openConns)

\* C4: with a persistent connection, construction opened the only
\* connection there is, and every query executes on it
C4_OnePersistentConnection ==
    (Persistent /\ phase \in {"serving", "terminated"}) =>
        /\ nOpened = 1
        /\ openConns = {self.conn}
        /\ \A t \in Tasks :
              /\ task[t].conn = 0
              /\ task[t].pc \in {"render", "close"} => task[t].q = self.conn

\* a second query executes on the persistent connection after a first one
\* has answered
C4_Witness ==
    /\ Persistent
    /\ last.text = "result"
    /\ \E t \in Tasks : task[t].pc = "render" /\ task[t].q = self.conn

\* C5: no two queries are executing on the persistent connection at the
\* same time
C5_PersistentSerialized ==
    Persistent =>
        \A t, u \in Tasks : (InFlight(t) /\ InFlight(u)) => t = u

\* a query executes on the persistent connection whose request arrived
\* while another query was executing on it
C5_Witness ==
    /\ Persistent
    /\ \E t \in Tasks : InFlight(t) /\ task[t].during

NoToken(argument) == ~Truthy(argument) /\ ~Truthy(env)

\* handler t of the dynamic client resolves identifier db_path in this step
Resolves(t, db_path) ==
    /\ impl = "database"
    /\ task[t].pc = "connect"
    /\ task[t].db_path = db_path
    /\ task'[t].pc /= "connect"

\* the connection handler t has opened in this step
Connected(t) == conns'[task'[t].conn]

\* C7: resolving an `md:` identifier without a token fails with the
\* missing-credentials error and opens no connection; every resolved cloud
\* target carries a non-empty token in its URI
C7_State ==
    /\ (/\ impl = "server"
        /\ phase /= "start"
        /\ startswith(args.db_path, MdPrefix)
        /\ NoToken(args.motherduck_token))
       => (phase = "failed" /\ startErr = "MissingToken" /\ nOpened = 0)
    /\ self.db_type = "motherduck" => Truthy(TokenOf(self.db_path))
    /\ \A h \in openConns :
          startswith(conns[h].path, MdPrefix) => Truthy(TokenOf(conns[h].path))

C7_Step ==
    \A t \in Tasks : \A db_path \in {MdPrefix, MdNamed} :
        (Resolves(t, db_path) /\ NoToken(self.motherduck_token))
           => (/\ last' = Fail(t, "query", "MissingToken")
               /\ UNCHANGED <<nOpened, conns>>)

C7_CloudNeedsToken == []C7_State /\ [][C7_Step]_vars

\* a query of the dynamic client on an `md:` target has failed for want of
\* a token
C7_Witness ==
    /\ impl = "database"
    /\ NoToken(self.motherduck_token)
    /\ last.text = "MissingToken"
    /\ nOpened = 0

\* C8: with saas_mode set, the URI of every resolved cloud target carries
\* the SaaS-mode marker
C8_SaasMarker ==
    /\ (impl = "server" /\ self.db_type = "motherduck" /\ args.saas_mode)
          => Contains(self.db_path, SaasParam)
    /\ (impl = "database" /\ self.saas_mode) =>
          \A h \in openConns :
             startswith(conns[h].path, MdPrefix)
                => Contains(conns[h].path, SaasParam)

\* the token the resolver is to embed
Preferred(argument) == IF Truthy(argument) THEN argument ELSE env

\* C9: the token in the URI of a cloud target is the explicit argument when
\* that is non-empty, the environment's token otherwise
C9_ExplicitTokenFirst ==
    /\ (impl = "server" /\ self.db_type = "motherduck")
          => TokenOf(self.db_path) = Preferred(args.motherduck_token)
    /\ impl = "database" =>
          \A h \in openConns :
             startswith(conns[h].path, MdPrefix)
                => TokenOf(conns[h].path) = Preferred(self.motherduck_token)

\* a query of the dynamic client is connected to a cloud target while both
\* the argument and the environment hold a token
C9_Witness ==
    /\ impl = "database"
    /\ Truthy(self.motherduck_token)
    /\ Truthy(env)
    /\ \E h \in openConns : startswith(conns[h].path, MdPrefix)

\* C10: `:memory:` resolves to itself as a duckdb (not a motherduck) target
\* whatever the tokens and saas_mode are
C10_State ==
    (impl = "server" /\ phase /= "start" /\ args.db_path = Memory)
       => (/\ self.db_path = Memory
           /\ self.db_type = "duckdb"
           /\ startErr \notin {"MissingToken", "FileNotFound"})

C10_Step ==
    \A t \in Tasks :
        Resolves(t, Memory)
           => \/ (task'[t].pc = "done" /\ last' = Fail(t, "query", "EngineError"))
              \/ (/\ task'[t].pc = "execute"
                  /\ task'[t].conn \in DOMAIN conns'
                  /\ Connected(t).path = Memory)

C10_MemoryResolves == []C10_State /\ [][C10_Step]_vars

\* the start-up client serves `:memory:` although a token and saas_mode are
\* configured and no file of that name exists
C10_Witness ==
    /\ impl = "server"
    /\ phase = "serving"
    /\ args.db_path = Memory
    /\ Truthy(args.motherduck_token)
    /\ Truthy(env)
    /\ args.saas_mode
    /\ self.db_path = Memory

\* C11: the tool-call handler answers every request with a result; no
\* error leaves it
C11_HandlerAlwaysReturns ==
    last.outcome /= "raised"

\* C12: every failure inside query() (connecting, executing the SQL,
\* rendering) leaves query() as one error kind, ValueError, whose message
\* contains the message of the original failure; a query that returned
\* raised nothing
C12_QueryErrorsWrapped ==
    last.name = "query" =>
        IF last.outcome \in {"raised", "failed"}
        THEN /\ last.error.class = "ValueError"
             /\ Contains(last.error.msg, <<last.text>>)
        ELSE last.error = NoError

\* a query of the start-up client failed inside the engine
C12_Witness ==
    /\ impl = "server"
    /\ last.name = "query"
    /\ last.outcome = "raised"
    /\ last.text = "EngineError"

\* C13: a query that fails leaves the target, the policy flags and the
\* persistent connection (still open) as they were and the server serving,
\* with the event loop free for the next request
C13_Step ==
    \A t \in Tasks :
        (/\ task[t].pc \in {"connect", "execute", "render"}
         /\ task'[t].pc = "done"
         /\ last'.outcome \in {"raised", "failed"})
        => (/\ self' = self
            /\ current_database' = current_database
            /\ args' = args
            /\ phase' = "serving"
            /\ running' = 0
            /\ self.conn /= 0 => self.conn \in DOMAIN conns')

C13_FailedQueryKeepsState == [][C13_Step]_vars

\* after a query on the persistent connection failed, a later query has
\* executed and rendered on that connection
C13_Witness ==
    /\ Persistent
    /\ last.name = "query"
    /\ last.outcome = "raised"
    /\ \E t \in Tasks : task[t].pc = "close" /\ task[t].q = self.conn

\* the handles queries opened that are still open
QueryConns == {h \in openConns : conns[h].by = "query"}

\* the client opens a connection for every query
Ephemeral ==
    \/ impl = "database" /\ phase /= "start"
    \/ impl = "server" /\ phase \in {"serving", "terminated"}
                       /\ server_short_lived(self)

\* C14: against an ephemeral target every query call opens one connection
\* of its own and closes it before the next one is opened: the connections
\* queries opened and have not closed are those of the queries that are
\* executing, never more than one
C14_OneConnectionPerQuery ==
    Ephemeral =>
        /\ QueryConns = {task[t].conn : t \in {u \in Tasks : InFlight(u)}}
        /\ Cardinality(QueryConns) <= 1

\* C15: set_database(X) for a valid X followed by get_database() returns X,
\* the identifier as given and not its resolved URI: the target is X once
\* set_database confirmed X, get_database answers with the target, and
\* nothing but a confirmed set_database changes the target
C15_State ==
    /\ (last.name = "set_database" /\ last.outcome = "returned")
           => (current_database = last.value /\ last.value \in Targets("set_database"))
    /\ last.name = "get_database"
           => (last.outcome = "returned" /\ last.value = current_database)

C15_Step ==
    (phase /= "start" /\ current_database' /= current_database)
        => (/\ last'.name = "set_database"
            /\ last'.outcome = "returned"
            /\ last'.value = current_database')

C15_SetThenGet == []C15_State /\ [][C15_Step]_vars

\* get_database answered with a cloud target that set_database switched to
C15_Witness ==
    /\ last.name = "get_database"
    /\ last.value /= args.db_path
    /\ startswith(last.value, MdPrefix)
    /\ Truthy(Preferred(self.motherduck_token))

\* the positions of the lines of a kind in a listing
Lines(listing, kind) == {i \in 1..Len(listing) : listing[i].kind = kind}

\* C16: with N database files found, the listing has 20 file entries
\* followed by one summary line stating N - 20 when N > 20, and N file
\* entries and no summary line when 1 <= N <= 20
C16_ListingCapped ==
    (impl = "database" /\ last.name = "list_databases") =>
        LET N == last.found
            entries == Lines(last.listing, "entry")
            more == Lines(last.listing, "more")
        IN  /\ N > 20 =>
                 /\ Cardinality(entries) = 20
                 /\ more = {Len(last.listing)}
                 /\ last.listing[Len(last.listing)].arg = N - 20
            /\ (1 <= N /\ N <= 20) =>
                 /\ Cardinality(entries) = N
                 /\ more = {}

\* 25 files were found: 20 entries and a line for 5 more
C16_Witness ==
    /\ last.name = "list_databases"
    /\ last.found = 25
    /\ Cardinality(Lines(last.listing, "entry")) = 20
    /\ last.listing[Len(last.listing)] = Line("more", 5)

\* C17: the start-up client, which requires the file to exist, fails with
\* the path-not-found error on a local file that does not exist, before any
\* connection is opened; the dynamic client, which may create the file,
\* resolves the same identifier to itself
C17_State ==
    (/\ impl = "server"
     /\ phase /= "start"
     /\ EngineMode(args.db_path) = "LOCAL_FILE"
     /\ ~exists(fs, args.db_path))
       => (/\ phase = "failed"
           /\ startErr = "FileNotFound"
           /\ nOpened = 0
           /\ openConns = {})

C17_Step ==
    \A t \in Tasks :
        (Resolves(t, LocalDb) /\ ~exists(fs, LocalDb))
           => \/ (/\ task'[t].pc = "done"
                  /\ last' = Fail(t, "query", "EngineError")
                  /\ nOpened' = nOpened)
              \/ (/\ task'[t].pc = "execute"
                  /\ task'[t].conn \in DOMAIN conns'
                  /\ Connected(t).path = LocalDb)

C17_MissingFile == []C17_State /\ [][C17_Step]_vars

\* the start-up client was configured with a file that does not exist
C17_Witness ==
    /\ impl = "server"
    /\ args.db_path = LocalDb
    /\ ~exists(fs, LocalDb)
    /\ phase = "failed"
    /\ startErr = "FileNotFound"

\* C18: constructing the start-up client for a read-only local target
\* leaves no connection held, whatever the outcome of the probe: the probe
\* connection is closed and the client holds none
C18_ProbeConnectionClosed ==
    (/\ impl = "server"
     /\ phase /= "start"
     /\ self.read_only
     /\ self.db_type = "duckdb")
       => (/\ self.conn = 0
           /\ \A h \in openConns : conns[h].by /= "probe")

\* C19 as stated: a validation statement was executed on the persistent
\* connection when it was opened, before any user query
C19_ValidatedBeforeQueries ==
    Persistent => (self.conn \in openConns /\ conns[self.conn].by = "probe")

\* C19, amended: the persistent connection is opened at construction by
\* duckdb.connect alone, no validation statement is executed on it before
\* the first user query; a target that cannot be connected fails the
\* construction with the engine's error, before any request is served
C19_ConnectIsTheValidation ==
    /\ Persistent => (self.conn \in openConns /\ conns[self.conn].by = "init")
    /\ (impl = "server" /\ startErr = "EngineError")
          => (/\ phase = "failed"
              /\ self.conn = 0
              /\ last = NoAnswer
              /\ \A t \in Tasks : task[t].pc = "idle")

\* the first user query is executing on the persistent connection
C19_Witness ==
    /\ Persistent
    /\ last = NoAnswer
    /\ \E t \in Tasks : task[t].pc = "render" /\ task[t].q = self.conn

\* C20: once the start-up client is constructed it holds no connection if
\* and only if it was configured read-only on a target that is not a cloud
\* target, and no query, successful or failed, changes its connection, its
\* resolved path, its database type or its read-only flag
C20_State ==
    (impl = "server" /\ phase \in {"serving", "terminated"})
       => (/\ self.conn = 0
               <=> (args.read_only /\ EngineMode(args.db_path) /= "CLOUD")
           /\ self.read_only = args.read_only
           /\ self.db_type = IF EngineMode(args.db_path) = "CLOUD"
                             THEN "motherduck" ELSE "duckdb")

C20_Step ==
    (impl = "server" /\ phase /= "start") => self' = self

C20_ConnectionModeFixed == []C20_State /\ [][C20_Step]_vars

\* the read-only client holds no connection after a query that failed,
\* while the next query is executing
C20_Witness ==
    /\ impl = "server"
    /\ phase = "serving"
    /\ self.read_only
    /\ self.conn = 0
    /\ last.outcome = "raised"
    /\ \E t \in Tasks : task[t].pc = "render"

\* C21: a call of the start-up server that names an unknown tool, or names
\* query with no arguments, returns its text ("Unsupported tool: <name>",
\* "Error: No query provided") and does nothing else: only a query with
\* arguments reaches the engine, and the handler that answers at once opens
\* no connection and changes no state of the server
C21_State ==
    \A t \in Tasks :
        (impl = "server"
            /\ task[t].pc \in {"connect", "execute", "render", "close"})
           => (task[t].name = "query" /\ task[t].arguments)

C21_Step ==
    \A t \in Tasks :
        (impl = "server" /\ task[t].pc = "pending" /\ task'[t].pc = "done")
           => (/\ last'.outcome = "returned"
               /\ last'.error = NoError
               /\ last'.text = IF last'.name = "query"
                               THEN "Error: No query provided"
                               ELSE "Unsupported tool"
               /\ UNCHANGED <<self, current_database, nOpened, conns, phase,
                              args, env, fs>>)

C21_NoQueryNoEffect == []C21_State /\ [][C21_Step]_vars

\* an unknown tool was answered while the persistent connection, the only
\* one ever opened, stays open
C21_Witness ==
    /\ Persistent
    /\ last.name /= "query"
    /\ last.text = "Unsupported tool"
    /\ nOpened = 1
    /\ openConns = {self.conn}

\* validate_database_path decides on db_path without a connection
NoProbeNeeded(db_path) ==
    \/ db_path \in {Memory, Star}
    \/ startswith(db_path, MdPrefix)
    \/ exists(fs, db_path)

\* C22: validate_database_path returns True or raises, never False; for
\* `:memory:`, `*`, an existing path or an md: path it opens no connection;
\* for a local path that does not exist it opens one test connection and
\* closes it before it returns True, so that validation leaves no
\* connection open
C22_State ==
    impl = "database" =>
        \A db_path \in Targets("set_database"), connectOk \in BOOLEAN :
            LET v == database_validate_database_path(db_path, self, env, fs,
                                                     connectOk)
            IN  /\ v.result \in {"True", "raised"}
                /\ NoProbeNeeded(db_path) => ~v.probe
                /\ v.probe => (v.result = "True" /\ v.closed)
                /\ (~NoProbeNeeded(db_path) /\ v.result = "True") => v.probe

C22_Step ==
    \A t \in Tasks :
        (/\ impl = "database"
         /\ task[t].pc = "pending"
         /\ task'[t].pc = "done"
         /\ last'.name = "set_database")
           => (/\ conns' = conns
               /\ IF last'.outcome = "returned"
                      /\ ~NoProbeNeeded(last'.value)
                  THEN nOpened' = nOpened + 1
                  ELSE nOpened' = nOpened)

C22_ValidateTrueOrRaises == []C22_State /\ [][C22_Step]_vars

\* set_database switched to a local file that does not exist: the test
\* connection is the only connection opened so far and it is closed
C22_Witness ==
    /\ last.name = "set_database"
    /\ last.outcome = "returned"
    /\ last.value = LocalDb
    /\ ~exists(fs, LocalDb)
    /\ nOpened = 1
    /\ openConns = {}

====
